---- MODULE Spec2Model ----
(***************************************************************************)
(* go-redisx: the RedisManager (health flag, statistics, script registry), *)
(* the operation path IncrTotal -> IsHealthy -> client call, the health    *)
(* monitor, and the Lua scripts of the lock and bounded-counter            *)
(* primitives, evaluated atomically by the store; NewRedisManager, the     *)
(* background loops and Close.                                             *)
(*                                                                         *)
(* Time: a time.Duration is counted in half milliseconds (HalfMs), so that *)
(* Duration.Milliseconds() has something to truncate; the store counts a   *)
(* key's remaining life in whole milliseconds and Tick is one millisecond. *)
(* A call's arguments are immutable and first used at its store call, so   *)
(* they are drawn at that step; the script name, which GetScript needs     *)
(* before anything else, is drawn when the call begins.                    *)
(***************************************************************************)
EXTENDS Integers, Sequences, FiniteSets, TLC

VARIABLES
    store,      \* the store's keyspace: present key -> [val, ttl]; ttl 0 = no expiry
    up,         \* environment: the store answers (ping and commands succeed)
    isHealthy,  \* RedisManager.isHealthy
    mu,         \* RedisManager.mu: "free" or the writer that holds it
    scripts,    \* RedisManager.scripts: the registered script names
    totalOps,   \* RedisStats.totalOps
    errorOps,   \* RedisStats.errorOps
    pc,         \* per caller: "idle", "health" (before IsHealthy), "call" (before the client call)
    opn,        \* per caller: the operation (script key or command) of its current/last call
    res,        \* per caller: the CacheResult its last call returned
    arg,        \* the (incr, max) a run's bounded-counter calls pass
    done,       \* RedisManager.done: "open" or "closed"
    panicked,   \* a goroutine has panicked (close of a closed channel)
    client,     \* RedisManager.client: "set" or "nil"
    ticker,     \* healthTicker / statsTicker: "nil", "running" or "stopped"
    tick,       \* per ticker: a tick waits in its channel C (buffer of one)
    loop,       \* per background loop: "off", "init" (goroutine not yet run),
                \* "select", "work" (a tick received) or "done" (returned)
    config,     \* RedisManager.config: [Mode, EnableStats]
    masters,    \* environment, cluster mode: per other shard, its primary answers
                \* (up is then the primary that serves the callers' commands)
    manager,    \* what NewRedisManager returned: "none" (not called yet),
                \* "nil" or "set"
    newErr,     \* the error NewRedisManager returned: a chain of wrapped errors
    startTime,  \* RedisStats.startTime: a clock reading, -1 before NewRedisStats
    logs        \* the health transitions performHealthCheck has logged, in order

lifecycle == <<done, panicked, client, ticker, tick, loop>>

setup == <<config, masters, manager, newErr, startTime>>

vars == <<store, up, isHealthy, mu, scripts, totalOps, errorOps, pc, opn, res, arg,
          setup, logs, lifecycle>>

---------------------------------------------------------------------------
(* Bounds of the model *)

MaxTTL == 2         \* longest expiry a caller passes, in milliseconds
MaxOps == 3         \* calls counted by totalOps in one run of Spec
MaxLockOps == 3     \* calls counted by totalOps in one run of SpecLock
MaxMultiOps == 2    \* calls counted by totalOps in one run of SpecMulti
MaxCounterOps == 4  \* calls counted by totalOps in one run of SpecCounter
MaxErrors == 1      \* outages start only while errorOps is at most this
MaxKeys == 2        \* longest key list handed to the multi-key scripts
MaxCeil == 3        \* largest ceiling (max) of a bounded counter
MaxStep == 2        \* largest increment of a bounded counter
MaxDecr == 2        \* largest amount a decrement asks for
MaxDecrOps == 3     \* calls begun in the decrement specification
MaxClock == 1       \* latest reading of the clock
MaxStatOps == 3     \* calls counted by totalOps in one run of SpecStats
MaxReentryOps == 2  \* calls counted by totalOps in one run of SpecReentry

Callers == {"c1", "c2"}
Loops == {"health", "stats"}
LockKeys == {"A", "B", "C"}
Tokens == {"t1", "t2"}
CounterKeys == {"n"}

\* time.Duration values callers pass, in half milliseconds: negative, below
\* one millisecond (zero once in milliseconds), and 1..MaxTTL milliseconds
Durations == {-2, 1} \cup {2 * m : m \in 1..MaxTTL}

\* key lists handed to the multi-key scripts: up to MaxKeys distinct keys
KeyLists ==
    {ks \in UNION {[1..n -> LockKeys] : n \in 0..MaxKeys} :
        \A i, j \in DOMAIN ks : ks[i] = ks[j] => i = j}

\* the token each caller of a multi-key run owns
OwnToken(c) == IF c = "c1" THEN "t1" ELSE "t2"

\* the keys of the single-key lock runs
SingleKeys == {"A", "B"}

Range(f) == {f[i] : i \in DOMAIN f}

---------------------------------------------------------------------------
(* Script keys (lua_scripts.go) and the other operations *)

ScriptKeyDecr == "decr_script"
ScriptKeyIncr == "incr_script"
ScriptKeyHDecr == "hdecr_script"
ScriptKeyLock == "lock_script"
ScriptKeyUnlock == "unlock_script"
ScriptKeyRenewLock == "renew_lock_script"
ScriptKeyMultiLock == "multi_lock_script"
ScriptKeyMultiUnlock == "multi_unlock_script"

\* the name IncrWithLimitAndExpire evaluates; the sources use the name and
\* declare it nowhere, and RegisterAllScripts registers no script under it
ScriptKeyIncrWithLimitAndExpire == "incr_with_limit_and_expire_script"

\* RegisterAllScripts: the names registered at construction (those modelled)
RegisterAllScripts ==
    {ScriptKeyDecr, ScriptKeyIncr, ScriptKeyHDecr, ScriptKeyLock, ScriptKeyUnlock,
     ScriptKeyRenewLock, ScriptKeyMultiLock, ScriptKeyMultiUnlock}

OpPing == "Ping"
OpExec == "Exec"

BoolOps == {ScriptKeyLock, ScriptKeyUnlock, ScriptKeyRenewLock, ScriptKeyMultiLock}
IntOps ==
    {ScriptKeyDecr, ScriptKeyIncr, ScriptKeyHDecr, ScriptKeyMultiUnlock,
     ScriptKeyIncrWithLimitAndExpire}

---------------------------------------------------------------------------
(* ErrorCode and CacheResult *)

OK == "OK"
REDIS_INNER_ERROR == "REDIS_INNER_ERROR"
CONNECTION_FAILED == "CONNECTION_FAILED"
KEY_NOT_FOUND == "KEY_NOT_FOUND"
INVALID_OPERATION == "INVALID_OPERATION"
INVALID_CONFIG == "INVALID_CONFIG"

\* the enumeration ErrorCode
ErrorCode ==
    {OK, "INTERRUPTED", "TIMEOUT", "BREAK", REDIS_INNER_ERROR, CONNECTION_FAILED,
     KEY_NOT_FOUND, INVALID_CONFIG, INVALID_OPERATION, "CLUSTER_NOT_READY",
     "HEALTH_CHECK_FAILED"}

NewCacheResult(val) == [Val |-> val, ErrCode |-> OK, Err |-> "nil"]

\* (mutant) an error result that drops the error
NewCacheErrorNoErr(zero, errCode, err) == [Val |-> zero, ErrCode |-> errCode, Err |-> "nil"]

\* zero is the zero value of the result's type parameter T
NewCacheError(zero, errCode, err) == [Val |-> zero, ErrCode |-> errCode, Err |-> err]

IsOK(cr) == cr.ErrCode = OK

\* the zero value of the type an operation returns
Zero(op) ==
    IF op \in BoolOps THEN FALSE
    ELSE IF op \in IntOps THEN 0
    ELSE "nil"

NoResult == [Val |-> "nil", ErrCode |-> "none", Err |-> "nil"]

---------------------------------------------------------------------------
(* The store: commands the scripts call *)

Exists(s, key) == key \in DOMAIN s

\* SET key value PX ttl / SET key value (ttl 0: no expiry)
Set(s, key, value, ttl) ==
    [k \in DOMAIN s \cup {key} |-> IF k = key THEN [val |-> value, ttl |-> ttl] ELSE s[k]]

\* DEL key
Del(s, key) == [k \in DOMAIN s \ {key} |-> s[k]]

\* PEXPIRE key ttl
PExpire(s, key, ttl) == [s EXCEPT ![key].ttl = ttl]

\* one millisecond passes: keys with an expiry lose one, and are gone at zero
Age(s) ==
    [k \in {x \in DOMAIN s : s[x].ttl # 1} |->
        IF s[k].ttl = 0 THEN s[k] ELSE [s[k] EXCEPT !.ttl = @ - 1]]

\* Duration.Milliseconds(): integer division truncated toward zero
Milliseconds(d) == IF d >= 0 THEN d \div 2 ELSE -((-d) \div 2)

\* HGET key field: whether the hash has the field
HExists(s, key, field) == Exists(s, key) /\ field \in DOMAIN s[key].val

\* a script's outcome: the integer it returns and the keyspace it leaves
Out(ret, s) == [ret |-> ret, store |-> s, err |-> "nil"]

\* a script that raised an error: redis.call of a command the store does not
\* have aborts the script, and EVAL answers with the error
ScriptError(err, s) == [ret |-> 0, store |-> s, err |-> err]

---------------------------------------------------------------------------
(* The Lua scripts (lua_scripts.go), as functions of the keyspace.  ARGV and *)
(* KEYS entries are strings, which Lua counts as true even when empty, so    *)
(* "not key" and "not value" never hold; tonumber(ttl) is the integer sent.  *)

\* (mutant) LockScript whose SET lacks NX
LockScriptNoNX(s, key, value, ttl) ==
    IF ttl <= 0 THEN Out(-1, s)
    ELSE Out(1, Set(s, key, value, ttl))

\* (mutant) LockScript that lets the holder's own token in again
LockScriptReentrant(s, key, value, ttl) ==
    IF ttl <= 0 THEN Out(-1, s)
    ELSE IF ~Exists(s, key) \/ s[key].val = value THEN Out(1, Set(s, key, value, ttl))
    ELSE Out(0, s)

\* LockScript: SET key value NX PX ttl
LockScript(s, key, value, ttl) ==
    IF ttl <= 0 THEN Out(-1, s)
    ELSE IF ~Exists(s, key) THEN Out(1, Set(s, key, value, ttl))
    ELSE Out(0, s)

\* (mutant) UnlockScript that deletes without comparing the value
UnlockScriptNoCheck(s, key, value) ==
    IF Exists(s, key) THEN Out(1, Del(s, key))
    ELSE Out(0, s)

\* (mutant) UnlockScript that reports the release without DEL
UnlockScriptNoDel(s, key, value) ==
    IF Exists(s, key) /\ s[key].val = value THEN Out(1, s)
    ELSE Out(0, s)

\* (mutant) UnlockScript that shortens the key's life instead of DEL
UnlockScriptExpire(s, key, value) ==
    IF Exists(s, key) /\ s[key].val = value THEN Out(1, PExpire(s, key, 1))
    ELSE Out(0, s)

\* UnlockScript: GET key == value, then DEL
UnlockScript(s, key, value) ==
    IF Exists(s, key) /\ s[key].val = value THEN Out(1, Del(s, key))
    ELSE Out(0, s)

\* (mutant) RenewLockScript that refreshes without comparing the value
RenewLockScriptNoCheck(s, key, value, ttl) ==
    IF ttl <= 0 THEN Out(-1, s)
    ELSE IF Exists(s, key) THEN Out(1, PExpire(s, key, ttl))
    ELSE Out(0, s)

\* (mutant) RenewLockScript that answers 1 without PEXPIRE
RenewLockScriptNoExpire(s, key, value, ttl) ==
    IF ttl <= 0 THEN Out(-1, s)
    ELSE IF Exists(s, key) /\ s[key].val = value THEN Out(1, s)
    ELSE Out(0, s)

\* RenewLockScript: GET key == value, then PEXPIRE
RenewLockScript(s, key, value, ttl) ==
    IF ttl <= 0 THEN Out(-1, s)
    ELSE IF Exists(s, key) /\ s[key].val = value THEN Out(1, PExpire(s, key, ttl))
    ELSE Out(0, s)

\* (mutant) the first loop looking at the first key only
MultiLockHeldFirstOnly(s, keys, value, i) ==
    i = 1 /\ Len(keys) >= 1 /\ Exists(s, keys[1]) /\ s[keys[1]].val # value

\* MultiLockScript, first loop from index i: some key holds another value
RECURSIVE MultiLockHeld(_, _, _, _)
MultiLockHeld(s, keys, value, i) ==
    IF i > Len(keys) THEN FALSE
    ELSE IF Exists(s, keys[i]) /\ s[keys[i]].val # value THEN TRUE
    ELSE MultiLockHeld(s, keys, value, i + 1)

\* (mutant) a second loop that sets the absent keys only
RECURSIVE MultiLockSetAbsentOnly(_, _, _, _, _)
MultiLockSetAbsentOnly(s, keys, value, ttl, i) ==
    IF i > Len(keys) THEN s
    ELSE MultiLockSetAbsentOnly(IF Exists(s, keys[i]) THEN s ELSE Set(s, keys[i], value, ttl),
                                keys, value, ttl, i + 1)

\* MultiLockScript, second loop from index i: SET key value PX ttl
RECURSIVE MultiLockSet(_, _, _, _, _)
MultiLockSet(s, keys, value, ttl, i) ==
    IF i > Len(keys) THEN s
    ELSE MultiLockSet(Set(s, keys[i], value, ttl), keys, value, ttl, i + 1)

\* (mutant) one loop that checks and sets key by key
RECURSIVE MultiLockOnePass(_, _, _, _, _)
MultiLockOnePass(s, keys, value, ttl, i) ==
    IF i > Len(keys) THEN Out(1, s)
    ELSE IF Exists(s, keys[i]) /\ s[keys[i]].val # value THEN Out(0, s)
    ELSE MultiLockOnePass(Set(s, keys[i], value, ttl), keys, value, ttl, i + 1)

MultiLockScriptOnePass(s, keys, value, ttl) ==
    IF ttl <= 0 \/ Len(keys) = 0 THEN Out(-1, s)
    ELSE MultiLockOnePass(s, keys, value, ttl, 1)

\* MultiLockScript: parameter check, first loop, second loop
MultiLockScript(s, keys, value, ttl) ==
    IF ttl <= 0 \/ Len(keys) = 0 THEN Out(-1, s)
    ELSE IF MultiLockHeld(s, keys, value, 1) THEN Out(0, s)
    ELSE Out(1, MultiLockSet(s, keys, value, ttl, 1))

\* (mutant) DecrScript comparing cur > decr
DecrScriptStrict(s, key, decr) ==
    LET cur == IF Exists(s, key) THEN s[key].val ELSE 0
        ttl == IF Exists(s, key) THEN s[key].ttl ELSE 0
    IN  IF cur > decr THEN Out(cur - decr, Set(s, key, cur - decr, ttl))
        ELSE Out(cur, s)

\* (mutant) DecrScript without the floor
DecrScriptNoFloor(s, key, decr) ==
    LET cur == IF Exists(s, key) THEN s[key].val ELSE 0
        ttl == IF Exists(s, key) THEN s[key].ttl ELSE 0
    IN  Out(cur - decr, Set(s, key, cur - decr, ttl))

\* (mutant) the unlock loop deleting every listed key that exists
MultiUnlockLoopNoCheck(s, keys, value, i, unlocked) ==
    Out(Cardinality({k \in Range(keys) : Exists(s, k)}),
        [k \in DOMAIN s \ Range(keys) |-> s[k]])

\* MultiUnlockScript's loop from the i-th key on: DEL and count the keys
\* whose value is the token
RECURSIVE MultiUnlockLoop(_, _, _, _, _)
MultiUnlockLoop(s, keys, value, i, unlocked) ==
    IF i > Len(keys) THEN Out(unlocked, s)
    ELSE IF Exists(s, keys[i]) /\ s[keys[i]].val = value
        THEN MultiUnlockLoop(Del(s, keys[i]), keys, value, i + 1, unlocked + 1)
    ELSE MultiUnlockLoop(s, keys, value, i + 1, unlocked)

\* MultiUnlockScript: no keys returns 0 (an ARGV string is never nil)
MultiUnlockScript(s, keys, value) ==
    IF Len(keys) = 0 THEN Out(0, s)
    ELSE MultiUnlockLoop(s, keys, value, 1, 0)

\* DecrScript: cur = tonumber(GET key or 0); DECRBY keeps the key's expiry
DecrScript(s, key, decr) ==
    LET cur == IF Exists(s, key) THEN s[key].val ELSE 0
        ttl == IF Exists(s, key) THEN s[key].ttl ELSE 0
    IN  IF cur >= decr THEN Out(cur - decr, Set(s, key, cur - decr, ttl))
        ELSE Out(cur, s)

\* HDecrScript: cur = tonumber(HGET key field or 0); at or above decr it calls
\* 'hdecrby', which is not a command of the store (hashes have HINCRBY only)
HDecrScript(s, key, field, decr) ==
    LET cur == IF HExists(s, key, field) THEN s[key].val[field] ELSE 0
    IN  IF cur >= decr THEN ScriptError("unknown command", s)
        ELSE Out(cur, s)

\* (mutant) IncrScript that increments whatever the current value
IncrScriptNoCeiling(s, key, incr, max) ==
    LET cur == IF Exists(s, key) THEN s[key].val ELSE 0
        ttl == IF Exists(s, key) THEN s[key].ttl ELSE 0
    IN  Out(cur + incr, Set(s, key, cur + incr, ttl))

\* (mutant) IncrScript comparing cur <= max
IncrScriptOffByOne(s, key, incr, max) ==
    LET cur == IF Exists(s, key) THEN s[key].val ELSE 0
        ttl == IF Exists(s, key) THEN s[key].ttl ELSE 0
    IN  IF cur <= max THEN Out(cur + incr, Set(s, key, cur + incr, ttl))
        ELSE Out(cur, s)

\* IncrScript: cur = tonumber(GET key or 0); INCRBY keeps the key's expiry
IncrScript(s, key, incr, max) ==
    LET cur == IF Exists(s, key) THEN s[key].val ELSE 0
        ttl == IF Exists(s, key) THEN s[key].ttl ELSE 0
    IN  IF cur < max THEN Out(cur + incr, Set(s, key, cur + incr, ttl))
        ELSE Out(cur, s)

---------------------------------------------------------------------------
(* The operation path (operations.go, script_operations.go) *)

\* (mutant) IsHealthy that answers true whatever the flag
IsHealthyAlways == TRUE

\* IsHealthy: the flag, read under mu.RLock (the caller waits while a writer holds mu)
IsHealthy == isHealthy

\* (mutant) GetScript that finds a source under every name
GetScriptAny(name) == TRUE

\* GetScript: whether the name has a registered source
GetScript(name) == name \in scripts

\* EvalScript up to Eval's IncrTotal: an unregistered name returns at once,
\* and the wrapper hands the error on with its own zero value
EvalScript(c, name) ==
    /\ pc[c] = "idle"
    /\ opn' = [opn EXCEPT ![c] = name]
    /\ IF GetScript(name)
       THEN /\ totalOps' = totalOps + 1
            /\ pc' = [pc EXCEPT ![c] = "health"]
            /\ res' = [res EXCEPT ![c] = NoResult]
       ELSE /\ res' = [res EXCEPT ![c] =
                        NewCacheError(Zero(name), INVALID_OPERATION, "script not found")]
            /\ UNCHANGED <<totalOps, pc>>
    /\ UNCHANGED <<store, up, isHealthy, mu, scripts, errorOps, arg, setup, logs, lifecycle>>

\* IncrWithLimitAndExpire up to the client call: EvalScript of its script
\* name; key, incr, max and int64(ttl.Seconds()) go to the script only if
\* the name is registered
IncrWithLimitAndExpire(c) == EvalScript(c, ScriptKeyIncrWithLimitAndExpire)

\* a passthrough command (Ping) or Pipeline.Exec up to its IncrTotal
Command(c, name) ==
    /\ pc[c] = "idle"
    /\ opn' = [opn EXCEPT ![c] = name]
    /\ totalOps' = totalOps + 1
    /\ pc' = [pc EXCEPT ![c] = "health"]
    /\ res' = [res EXCEPT ![c] = NoResult]
    /\ UNCHANGED <<store, up, isHealthy, mu, scripts, errorOps, arg, setup, logs, lifecycle>>

\* (mutant) the health check without its return: the call goes on
CheckHealthNoReturn(c) ==
    /\ pc[c] = "health"
    /\ mu = "free"
    /\ pc' = [pc EXCEPT ![c] = "call"]
    /\ res' = IF IsHealthy THEN res
              ELSE [res EXCEPT ![c] =
                      NewCacheError(Zero(opn[c]), CONNECTION_FAILED, "ErrConnectionFailed")]
    /\ UNCHANGED <<store, up, isHealthy, mu, scripts, totalOps, errorOps, opn, arg, setup, logs, lifecycle>>

\* if !rm.IsHealthy() { return CONNECTION_FAILED }
CheckHealth(c) ==
    /\ pc[c] = "health"
    /\ mu = "free"
    /\ IF IsHealthy
       THEN /\ pc' = [pc EXCEPT ![c] = "call"]
            /\ res' = res
       ELSE /\ pc' = [pc EXCEPT ![c] = "idle"]
            /\ res' = [res EXCEPT ![c] =
                        NewCacheError(Zero(opn[c]), CONNECTION_FAILED, "ErrConnectionFailed")]
    /\ UNCHANGED <<store, up, isHealthy, mu, scripts, totalOps, errorOps, opn, arg, setup, logs, lifecycle>>

\* the interface{} values of a reply: go-redis decodes a Lua integer reply
\* as int64 and a Lua string reply as string
Int64(n) == [type |-> "int64", v |-> n]
String(str) == [type |-> "string", v |-> str]

\* what Eval returns for a script outcome: the reply, or the transport's error
EvalResult(out) ==
    IF ~up THEN NewCacheError("nil", REDIS_INNER_ERROR, "transport error")
    ELSE IF out.err # "nil" THEN NewCacheError("nil", REDIS_INNER_ERROR, out.err)
    ELSE NewCacheResult(Int64(out.ret))

\* the errors the client call itself returns (err != nil in Eval, Ping, Exec)
ClientErrors == {"transport error", "unknown command"}

\* result.Val.(int64): the reply's dynamic type is int64
IsInt64(val) == val.type = "int64"

\* (mutant) a client call whose transport error clears the health flag
ClientCallMarksUnhealthy(c, op, s, result) ==
    /\ pc[c] = "call"
    /\ opn[c] = op
    /\ client = "set"
    /\ pc' = [pc EXCEPT ![c] = "idle"]
    /\ store' = IF up THEN s ELSE store
    /\ errorOps' = IF result.Err \in ClientErrors THEN errorOps + 1 ELSE errorOps
    /\ isHealthy' = IF result.Err = "transport error" THEN FALSE ELSE isHealthy
    /\ res' = [res EXCEPT ![c] = result]
    /\ UNCHANGED <<up, mu, scripts, totalOps, opn, arg, setup, logs, lifecycle>>

\* the client call of op through rm.client and the return of its wrapper's
\* result: the script runs only if the store answers, and a transport error
\* counts in errorOps
ClientCall(c, op, s, result) ==
    /\ pc[c] = "call"
    /\ opn[c] = op
    /\ client = "set"
    /\ pc' = [pc EXCEPT ![c] = "idle"]
    /\ store' = IF up THEN s ELSE store
    /\ errorOps' = IF result.Err \in ClientErrors THEN errorOps + 1 ELSE errorOps
    /\ res' = [res EXCEPT ![c] = result]
    /\ UNCHANGED <<up, isHealthy, mu, scripts, totalOps, opn, arg, setup, logs, lifecycle>>

\* the wrappers' translation of Eval's result

\* (mutant) TryLock returning a lock that was not acquired as an error
TryLockResultContendedError(result) ==
    IF ~IsOK(result) THEN NewCacheError(FALSE, result.ErrCode, result.Err)
    ELSE IF ~IsInt64(result.Val)
        THEN NewCacheError(FALSE, REDIS_INNER_ERROR, "unexpected return type")
    ELSE IF result.Val.v # 1
        THEN NewCacheError(FALSE, REDIS_INNER_ERROR, "invalid lock parameters")
    ELSE NewCacheResult(TRUE)

TryLockResult(result) ==
    IF ~IsOK(result) THEN NewCacheError(FALSE, result.ErrCode, result.Err)
    ELSE IF ~IsInt64(result.Val)
        THEN NewCacheError(FALSE, REDIS_INNER_ERROR, "unexpected return type")
    ELSE IF result.Val.v = -1
        THEN NewCacheError(FALSE, REDIS_INNER_ERROR, "invalid lock parameters")
    ELSE NewCacheResult(result.Val.v = 1)

ReleaseLockResult(result) ==
    IF ~IsOK(result) THEN NewCacheError(FALSE, result.ErrCode, result.Err)
    ELSE IF ~IsInt64(result.Val)
        THEN NewCacheError(FALSE, REDIS_INNER_ERROR, "unexpected return type")
    ELSE NewCacheResult(result.Val.v = 1)

RenewLockResult(result) ==
    IF ~IsOK(result) THEN NewCacheError(FALSE, result.ErrCode, result.Err)
    ELSE IF ~IsInt64(result.Val)
        THEN NewCacheError(FALSE, REDIS_INNER_ERROR, "unexpected return type")
    ELSE IF result.Val.v = -1
        THEN NewCacheError(FALSE, REDIS_INNER_ERROR, "invalid renew lock parameters")
    ELSE NewCacheResult(result.Val.v = 1)

TryMultiLockResult(result) ==
    IF ~IsOK(result) THEN NewCacheError(FALSE, result.ErrCode, result.Err)
    ELSE IF ~IsInt64(result.Val)
        THEN NewCacheError(FALSE, REDIS_INNER_ERROR, "unexpected return type")
    ELSE IF result.Val.v = -1
        THEN NewCacheError(FALSE, REDIS_INNER_ERROR, "invalid multi-lock parameters")
    ELSE NewCacheResult(result.Val.v = 1)

ReleaseMultiLockResult(result) ==
    IF ~IsOK(result) THEN NewCacheError(0, result.ErrCode, result.Err)
    ELSE IF ~IsInt64(result.Val)
        THEN NewCacheError(0, REDIS_INNER_ERROR, "unexpected return type")
    ELSE NewCacheResult(result.Val.v)

SafeIncrResult(result) ==
    IF ~IsOK(result) THEN NewCacheError(0, result.ErrCode, result.Err)
    ELSE IF ~IsInt64(result.Val)
        THEN NewCacheError(0, REDIS_INNER_ERROR, "unexpected return type")
    ELSE NewCacheResult(result.Val.v)

TryLock(c, lockKey, lockValue, expiration) ==
    LET out == LockScript(store, lockKey, lockValue, Milliseconds(expiration))
    IN  ClientCall(c, ScriptKeyLock, out.store, TryLockResult(EvalResult(out)))

ReleaseLock(c, lockKey, lockValue) ==
    LET out == UnlockScript(store, lockKey, lockValue)
    IN  ClientCall(c, ScriptKeyUnlock, out.store, ReleaseLockResult(EvalResult(out)))

RenewLock(c, lockKey, lockValue, expiration) ==
    LET out == RenewLockScript(store, lockKey, lockValue, Milliseconds(expiration))
    IN  ClientCall(c, ScriptKeyRenewLock, out.store, RenewLockResult(EvalResult(out)))

TryMultiLock(c, lockKeys, lockValue, expiration) ==
    LET out == MultiLockScript(store, lockKeys, lockValue, Milliseconds(expiration))
    IN  ClientCall(c, ScriptKeyMultiLock, out.store, TryMultiLockResult(EvalResult(out)))

SafeDecrResult(result) ==
    IF ~IsOK(result) THEN NewCacheError(0, result.ErrCode, result.Err)
    ELSE IF ~IsInt64(result.Val)
        THEN NewCacheError(0, REDIS_INNER_ERROR, "unexpected return type")
    ELSE NewCacheResult(result.Val.v)

SafeDecr(c, key, decr) ==
    LET out == DecrScript(store, key, decr)
    IN  ClientCall(c, ScriptKeyDecr, out.store, SafeDecrResult(EvalResult(out)))

SafeHDecrResult(result) ==
    IF ~IsOK(result) THEN NewCacheError(0, result.ErrCode, result.Err)
    ELSE IF ~IsInt64(result.Val)
        THEN NewCacheError(0, REDIS_INNER_ERROR, "unexpected return type")
    ELSE NewCacheResult(result.Val.v)

SafeHDecr(c, key, field, decr) ==
    LET out == HDecrScript(store, key, field, decr)
    IN  ClientCall(c, ScriptKeyHDecr, out.store, SafeHDecrResult(EvalResult(out)))

ReleaseMultiLock(c, lockKeys, lockValue) ==
    LET out == MultiUnlockScript(store, lockKeys, lockValue)
    IN  ClientCall(c, ScriptKeyMultiUnlock, out.store, ReleaseMultiLockResult(EvalResult(out)))

\* the script primitives and the translation each applies to Eval's result
ScriptPrimitives ==
    {ScriptKeyLock, ScriptKeyUnlock, ScriptKeyRenewLock, ScriptKeyMultiLock,
     ScriptKeyMultiUnlock, ScriptKeyDecr, ScriptKeyIncr}

WrapperResult(op, result) ==
    CASE op = ScriptKeyLock -> TryLockResult(result)
      [] op = ScriptKeyUnlock -> ReleaseLockResult(result)
      [] op = ScriptKeyRenewLock -> RenewLockResult(result)
      [] op = ScriptKeyMultiLock -> TryMultiLockResult(result)
      [] op = ScriptKeyMultiUnlock -> ReleaseMultiLockResult(result)
      [] op = ScriptKeyDecr -> SafeDecrResult(result)
      [] op = ScriptKeyIncr -> SafeIncrResult(result)

\* what Eval may hand a wrapper: an integer reply, a reply of another shape,
\* or the client's error
EvalReplies == {"-1", "0", "1", "2", "str", "err"}

EvalReply(r) ==
    CASE r = "-1" -> NewCacheResult(Int64(-1))
      [] r = "0" -> NewCacheResult(Int64(0))
      [] r = "1" -> NewCacheResult(Int64(1))
      [] r = "2" -> NewCacheResult(Int64(2))
      [] r = "str" -> NewCacheResult(String("str"))
      [] r = "err" -> NewCacheError("nil", REDIS_INNER_ERROR, "transport error")

\* a primitive's wrapper applied to a reply of Eval, the keyspace aside
WrapReply(c, op, r) == ClientCall(c, op, store, WrapperResult(op, EvalReply(r)))

SafeIncr(c, key, incr, max) ==
    LET out == IncrScript(store, key, incr, max)
    IN  ClientCall(c, ScriptKeyIncr, out.store, SafeIncrResult(EvalResult(out)))

\* Ping: the store's PONG, or the transport's error
Ping(c) ==
    ClientCall(c, OpPing, store,
               IF up THEN NewCacheResult("PONG")
               ELSE NewCacheError("nil", REDIS_INNER_ERROR, "transport error"))

\* Pipeline.Exec of a pipeline holding one queued command on key: a GET of a
\* missing key makes Exec return redis.Nil, which is KEY_NOT_FOUND
Exec(c, cmd, key) ==
    ClientCall(c, OpExec,
               IF cmd = "DEL" THEN Del(store, key) ELSE store,
               IF ~up THEN NewCacheError("nil", REDIS_INNER_ERROR, "transport error")
               ELSE IF cmd = "GET" /\ ~Exists(store, key)
                   THEN NewCacheError("nil", KEY_NOT_FOUND, "ErrKeyNotFound")
               ELSE NewCacheResult("cmders"))

\* the client call of an operation that passed its health check before
\* Close cleared rm.client: a method call on a nil interface value, which
\* panics (nil pointer dereference)
NilDeref(c) ==
    /\ ~panicked
    /\ pc[c] = "call"
    /\ client = "nil"
    /\ panicked' = TRUE
    /\ UNCHANGED <<store, up, isHealthy, mu, scripts, totalOps, errorOps, pc, opn,
                   res, arg, setup, logs, done, client, ticker, tick, loop>>

OpPipeline == "Pipeline"

\* Pipeline: rm.client.Pipeline(), with no health check and no counter; on a
\* cleared rm.client the call panics
Pipeline(c) ==
    /\ ~panicked
    /\ pc[c] = "idle"
    /\ opn' = [opn EXCEPT ![c] = OpPipeline]
    /\ IF client = "nil"
       THEN /\ panicked' = TRUE
            /\ res' = res
       ELSE /\ res' = [res EXCEPT ![c] = [Val |-> "pipe", ErrCode |-> OK, Err |-> "nil"]]
            /\ UNCHANGED panicked
    /\ UNCHANGED <<store, up, isHealthy, mu, scripts, totalOps, errorOps, pc,
                   arg, setup, logs, done, client, ticker, tick, loop>>

---------------------------------------------------------------------------
(* The health monitor (manager.go) *)

\* RedisConfig.Mode
ModeSingle == "single"
ModeMasterSlave == "master_slave"
ModeCluster == "cluster"

\* the primaries of a cluster besides the one that serves the callers' commands
OtherShards == {"s2", "s3"}

\* rm.client.Ping(rm.ctx).Err() == nil
ClientPing == up

\* (mutant) a cluster probe that pings through the client only
ForEachMasterClientOnly == up

\* clusterClient.ForEachMaster(ping) == nil: every primary is pinged on its
\* own and the first error is returned
ForEachMaster == up /\ \A m \in OtherShards : masters[m]

\* performHealthCheck's switch on the mode: the probe round's err == nil
\* (NewClusterClient made the client of a cluster, so the type assertion holds)
ProbeRound == IF config.Mode = ModeCluster THEN ForEachMaster ELSE ClientPing

\* (mutant) a flag that a successful probe does not raise again
HealthFlagSticky(wasHealthy, ok) == wasHealthy /\ ok

\* rm.isHealthy = err == nil
HealthFlag(wasHealthy, ok) == ok

\* (mutant) logging every failed round
HealthLogEveryFailure(wasHealthy, healthy) ==
    IF ~healthy THEN Append(logs, "failed")
    ELSE IF ~wasHealthy THEN Append(logs, "recovered")
    ELSE logs

\* the log after performHealthCheck's two branches on (wasHealthy, isHealthy)
HealthLog(wasHealthy, healthy) ==
    IF ~healthy /\ wasHealthy THEN Append(logs, "failed")
    ELSE IF healthy /\ ~wasHealthy THEN Append(logs, "recovered")
    ELSE logs

\* healthCheckLoop serves a tick: performHealthCheck takes mu.Lock and pings
HealthTick ==
    /\ mu = "free"
    /\ mu' = "health"
    /\ UNCHANGED <<store, up, isHealthy, scripts, totalOps, errorOps, pc, opn, res, arg, setup, logs, lifecycle>>

\* performHealthCheck after the ping: the flag is the probe's outcome, a
\* change of the flag is logged, a Healthy -> Unhealthy change counts in
\* errorOps, and mu is released
performHealthCheck ==
    /\ mu = "health"
    /\ isHealthy' = HealthFlag(isHealthy, ProbeRound)
    /\ logs' = HealthLog(isHealthy, isHealthy')
    /\ errorOps' = IF ~isHealthy' /\ isHealthy THEN errorOps + 1 ELSE errorOps
    /\ mu' = "free"
    /\ UNCHANGED <<store, up, scripts, totalOps, pc, opn, res, arg, setup, lifecycle>>

---------------------------------------------------------------------------
(* Shutdown and the background loops (manager.go) *)

\* startHealthCheck / startStatsOutput, run as a goroutine of its own: the
\* ticker is created and the loop started
startLoop(l) ==
    /\ ~panicked
    /\ loop[l] = "init"
    /\ ticker' = [ticker EXCEPT ![l] = "running"]
    /\ loop' = [loop EXCEPT ![l] = "select"]
    /\ UNCHANGED <<store, up, isHealthy, mu, scripts, totalOps, errorOps, pc, opn,
                   res, arg, setup, logs, done, panicked, client, tick>>

\* a running ticker sends a tick unless one already waits in its channel
TickerFire(l) ==
    /\ ~panicked
    /\ ticker[l] = "running"
    /\ ~tick[l]
    /\ tick' = [tick EXCEPT ![l] = TRUE]
    /\ UNCHANGED <<store, up, isHealthy, mu, scripts, totalOps, errorOps, pc, opn,
                   res, arg, setup, logs, done, panicked, client, ticker, loop>>

\* (mutant) a tick served while the previous one is still being worked on
LoopRecvOverlapping(l) ==
    /\ ~panicked
    /\ loop[l] \in {"select", "work"}
    /\ tick[l]
    /\ tick' = [tick EXCEPT ![l] = FALSE]
    /\ loop' = [loop EXCEPT ![l] = "work"]
    /\ UNCHANGED <<store, up, isHealthy, mu, scripts, totalOps, errorOps, pc, opn,
                   res, arg, setup, logs, done, panicked, client, ticker>>

\* select: case <-ticker.C
LoopRecv(l) ==
    /\ ~panicked
    /\ loop[l] = "select"
    /\ tick[l]
    /\ tick' = [tick EXCEPT ![l] = FALSE]
    /\ loop' = [loop EXCEPT ![l] = "work"]
    /\ UNCHANGED <<store, up, isHealthy, mu, scripts, totalOps, errorOps, pc, opn,
                   res, arg, setup, logs, done, panicked, client, ticker>>

\* (mutant) only the health loop has the done case
LoopDoneHealthOnly(l) ==
    /\ ~panicked
    /\ l = "health"
    /\ loop[l] = "select"
    /\ done = "closed"
    /\ loop' = [loop EXCEPT ![l] = "done"]
    /\ UNCHANGED <<store, up, isHealthy, mu, scripts, totalOps, errorOps, pc, opn,
                   res, arg, setup, logs, done, panicked, client, ticker, tick>>

\* select: case <-rm.done: return
LoopDone(l) ==
    /\ ~panicked
    /\ loop[l] = "select"
    /\ done = "closed"
    /\ loop' = [loop EXCEPT ![l] = "done"]
    /\ UNCHANGED <<store, up, isHealthy, mu, scripts, totalOps, errorOps, pc, opn,
                   res, arg, setup, logs, done, panicked, client, ticker, tick>>

\* the health loop's performHealthCheck, from mu.Lock to mu.Unlock: without
\* a client the flag is cleared and nothing else happens, otherwise the
\* flag is the probe's outcome and a change of the flag is logged
LoopHealthCheck ==
    /\ ~panicked
    /\ loop["health"] = "work"
    /\ mu = "free"
    /\ isHealthy' = IF client = "nil" THEN FALSE ELSE HealthFlag(isHealthy, ProbeRound)
    /\ logs' = IF client = "nil" THEN logs ELSE HealthLog(isHealthy, isHealthy')
    /\ errorOps' = IF client = "set" /\ ~isHealthy' /\ isHealthy THEN errorOps + 1 ELSE errorOps
    /\ loop' = [loop EXCEPT !["health"] = "select"]
    /\ UNCHANGED <<store, up, mu, scripts, totalOps, pc, opn, res, arg, setup,
                   done, panicked, client, ticker, tick>>

\* the statistics loop's rm.stats.Proc()
LoopStatsProc ==
    /\ ~panicked
    /\ loop["stats"] = "work"
    /\ loop' = [loop EXCEPT !["stats"] = "select"]
    /\ UNCHANGED <<store, up, isHealthy, mu, scripts, totalOps, errorOps, pc, opn,
                   res, arg, setup, logs, done, panicked, client, ticker, tick>>

\* Close: rm.mu.Lock(); close(rm.done).  Closing a closed channel panics,
\* and the deferred Unlock runs as the panic unwinds
CloseBegin(c) ==
    /\ ~panicked
    /\ pc[c] = "idle"
    /\ mu = "free"
    /\ opn' = [opn EXCEPT ![c] = "Close"]
    /\ IF done = "closed"
       THEN /\ panicked' = TRUE
            /\ UNCHANGED <<mu, pc, done>>
       ELSE /\ done' = "closed"
            /\ mu' = c
            /\ pc' = [pc EXCEPT ![c] = "closing"]
            /\ UNCHANGED panicked
    /\ UNCHANGED <<store, up, isHealthy, scripts, totalOps, errorOps, res, arg, setup, logs,
                   client, ticker, tick, loop>>

\* (mutant) a Close that clears the client and leaves the flag as it is
CloseEndKeepsFlag(c) ==
    /\ ~panicked
    /\ pc[c] = "closing"
    /\ ticker' = [l \in Loops |-> IF ticker[l] = "nil" THEN "nil" ELSE "stopped"]
    /\ client' = "nil"
    /\ mu' = "free"
    /\ pc' = [pc EXCEPT ![c] = "idle"]
    /\ res' = [res EXCEPT ![c] = [Val |-> "nil", ErrCode |-> OK, Err |-> "nil"]]
    /\ UNCHANGED <<store, up, isHealthy, scripts, totalOps, errorOps, opn, arg, setup, logs,
                   done, panicked, tick, loop>>

\* Close after close(rm.done): the tickers that exist are stopped (a tick
\* already in the channel stays), the client is closed and cleared with the
\* flag, and mu is released
CloseEnd(c) ==
    /\ ~panicked
    /\ pc[c] = "closing"
    /\ ticker' = [l \in Loops |-> IF ticker[l] = "nil" THEN "nil" ELSE "stopped"]
    /\ client' = "nil"
    /\ isHealthy' = IF client = "set" THEN FALSE ELSE isHealthy
    /\ mu' = "free"
    /\ pc' = [pc EXCEPT ![c] = "idle"]
    /\ res' = [res EXCEPT ![c] = [Val |-> "nil", ErrCode |-> OK, Err |-> "nil"]]
    /\ UNCHANGED <<store, up, scripts, totalOps, errorOps, opn, arg, setup, logs,
                   done, panicked, tick, loop>>

---------------------------------------------------------------------------
(* Construction (manager.go, config and error types) *)

\* a nil error
Nil == [type |-> "nil"]

\* the error a failed dial or ping returns
PingErr == [type |-> "net"]

\* (mutant) a connection failure that carries the internal-error code
ErrConnectionFailedAsInner ==
    [type |-> "RedisError", Code |-> REDIS_INNER_ERROR, Message |-> "connection failed", Err |-> Nil]

\* the predefined errors
ErrConnectionFailed ==
    [type |-> "RedisError", Code |-> CONNECTION_FAILED, Message |-> "connection failed", Err |-> Nil]

ErrInvalidConfig ==
    [type |-> "RedisError", Code |-> INVALID_CONFIG, Message |-> "invalid config", Err |-> Nil]

\* RedisError.WithError / WithMessage: a copy with the cause or the message replaced
WithError(e, err) == [e EXCEPT !.Err = err]

WithMessage(e, msg) == [e EXCEPT !.Message = msg]

\* fmt.Errorf("...: %w", err): a new error that wraps err
Errorf(msg, err) == [type |-> "wrapError", Message |-> msg, Err |-> err]

\* the configurations a caller may pass: a mode, whether the mode's section
\* names an address, and whether statistics are enabled
ConfigModes == {"", ModeSingle, ModeMasterSlave, ModeCluster, "other"}

Configs == [Mode : ConfigModes, Addrs : BOOLEAN, EnableStats : BOOLEAN]

\* Validate sets the default mode
Defaulted(cfg) == IF cfg.Mode = "" THEN [cfg EXCEPT !.Mode = ModeSingle] ELSE cfg

\* Validate: the mode is known and its section names an address
Validate(cfg) ==
    IF Defaulted(cfg).Mode \notin {ModeSingle, ModeMasterSlave, ModeCluster}
    THEN WithMessage(ErrInvalidConfig, "invalid mode")
    ELSE IF ~cfg.Addrs THEN WithMessage(ErrInvalidConfig, "addr is required")
    ELSE Nil

\* initClient: every mode's init pings through the new client and keeps the
\* client only if the ping succeeds
initClient == IF ClientPing THEN Nil ELSE WithError(ErrConnectionFailed, PingErr)

\* the readings of the clock
Clock == 0..MaxClock

\* NewRedisManager(config): validation, the statistics object, the client
\* and its probe, then the goroutines that start the loops and the scripts
NewRedisManager ==
    /\ manager = "none"
    /\ config' = Defaulted(config)
    /\ IF Validate(config) # Nil
       THEN /\ manager' = "nil"
            /\ newErr' = Errorf("config validation failed", Validate(config))
            /\ UNCHANGED <<client, isHealthy, loop, scripts, startTime>>
       ELSE /\ \E now \in Clock : startTime' = now
            /\ IF initClient # Nil
               THEN /\ manager' = "nil"
                    /\ newErr' = Errorf("client initialisation failed", initClient)
                    /\ UNCHANGED <<client, isHealthy, loop, scripts>>
               ELSE /\ manager' = "set"
                    /\ newErr' = Nil
                    /\ client' = "set"
                    /\ isHealthy' = TRUE
                    /\ loop' = [l \in Loops |->
                                  IF l = "health" \/ config.EnableStats THEN "init" ELSE "off"]
                    /\ scripts' = RegisterAllScripts
    /\ UNCHANGED <<store, up, mu, totalOps, errorOps, pc, opn, res, arg, masters, logs,
                   done, panicked, ticker, tick>>

\* (mutant) a read that drains the counters
GetStatsDrain(c) ==
    /\ pc[c] = "idle"
    /\ opn' = [opn EXCEPT ![c] = "GetStats"]
    /\ \E now \in Clock :
          /\ now >= startTime
          /\ res' = [res EXCEPT ![c] =
                      [Val |-> [total |-> totalOps, errors |-> errorOps,
                                uptime |-> now - startTime],
                       ErrCode |-> OK, Err |-> "nil"]]
    /\ totalOps' = 0
    /\ errorOps' = 0
    /\ UNCHANGED <<store, up, isHealthy, mu, scripts, pc, arg, setup, logs, lifecycle>>

\* RedisStats.GetStats: the counters and the uptime, read under the read lock
GetStats(c) ==
    /\ pc[c] = "idle"
    /\ opn' = [opn EXCEPT ![c] = "GetStats"]
    /\ \E now \in Clock :
          /\ now >= startTime
          /\ res' = [res EXCEPT ![c] =
                      [Val |-> [total |-> totalOps, errors |-> errorOps,
                                uptime |-> now - startTime],
                       ErrCode |-> OK, Err |-> "nil"]]
    /\ UNCHANGED <<store, up, isHealthy, mu, scripts, totalOps, errorOps, pc, arg, setup, logs, lifecycle>>

---------------------------------------------------------------------------
(* The environment *)

\* the store stops answering
StoreDown ==
    /\ up
    /\ up' = FALSE
    /\ UNCHANGED <<store, isHealthy, mu, scripts, totalOps, errorOps, pc, opn, res, arg, setup, logs, lifecycle>>

\* the store answers again
StoreUp ==
    /\ ~up
    /\ up' = TRUE
    /\ UNCHANGED <<store, isHealthy, mu, scripts, totalOps, errorOps, pc, opn, res, arg, setup, logs, lifecycle>>

\* a primary of another shard stops answering, or answers again
ShardDown(m) ==
    /\ masters[m]
    /\ masters' = [masters EXCEPT ![m] = FALSE]
    /\ UNCHANGED <<store, up, isHealthy, mu, scripts, totalOps, errorOps, pc, opn, res, arg,
                   config, manager, newErr, startTime, logs, lifecycle>>

ShardUp(m) ==
    /\ ~masters[m]
    /\ masters' = [masters EXCEPT ![m] = TRUE]
    /\ UNCHANGED <<store, up, isHealthy, mu, scripts, totalOps, errorOps, pc, opn, res, arg,
                   config, manager, newErr, startTime, logs, lifecycle>>

\* one millisecond passes in the store
Tick ==
    /\ \E k \in DOMAIN store : store[k].ttl > 0
    /\ store' = Age(store)
    /\ UNCHANGED <<up, isHealthy, mu, scripts, totalOps, errorOps, pc, opn, res, arg, setup, logs, lifecycle>>

---------------------------------------------------------------------------
(* Specifications *)

EmptyStore == [k \in {} |-> 0]

\* what a successful NewRedisManager of a single-instance configuration
\* leaves behind
Constructed ==
    /\ config = [Mode |-> ModeSingle, Addrs |-> TRUE, EnableStats |-> FALSE]
    /\ masters = [m \in OtherShards |-> TRUE]
    /\ manager = "set"
    /\ newErr = Nil
    /\ startTime = 0
    /\ logs = <<>>

\* the background loops once started: the health loop selecting on its
\* running ticker, statistics disabled
Started ==
    /\ done = "open"
    /\ panicked = FALSE
    /\ client = "set"
    /\ ticker = [l \in Loops |-> IF l = "health" THEN "running" ELSE "nil"]
    /\ tick = [l \in Loops |-> FALSE]
    /\ loop = [l \in Loops |-> IF l = "health" THEN "select" ELSE "off"]

\* the manager as NewRedisManager returns it, over an empty store
InitManager ==
    /\ Started
    /\ Constructed
    /\ up = TRUE
    /\ isHealthy = TRUE
    /\ mu = "free"
    /\ scripts = RegisterAllScripts
    /\ totalOps = 0
    /\ errorOps = 0
    /\ pc = [c \in Callers |-> "idle"]
    /\ opn = [c \in Callers |-> "none"]
    /\ res = [c \in Callers |-> NoResult]

\* the lock primitives, two callers, a healthy manager and a store that answers
InitLock ==
    /\ InitManager
    /\ store = EmptyStore
    /\ arg = [incr |-> 1, max |-> 1]

SingleLockOps == {ScriptKeyLock, ScriptKeyUnlock, ScriptKeyRenewLock}

NextLock ==
    \/ \E c \in Callers, name \in SingleLockOps :
          totalOps < MaxLockOps /\ EvalScript(c, name)
    \/ \E c \in Callers : CheckHealth(c)
    \/ \E c \in Callers, k \in SingleKeys, t \in Tokens, d \in Durations : TryLock(c, k, t, d)
    \/ \E c \in Callers, k \in SingleKeys, t \in Tokens : ReleaseLock(c, k, t)
    \/ \E c \in Callers, k \in SingleKeys, t \in Tokens, d \in Durations : RenewLock(c, k, t, d)
    \/ Tick

SpecLock == InitLock /\ [][NextLock]_vars

\* the lock values a caller may pass to TryLock: a token or the empty string
LockValues == Tokens \cup {""}

\* TryLock with every argument a caller may pass
NextLockArgs ==
    \/ \E c \in Callers : totalOps < MaxLockOps /\ EvalScript(c, ScriptKeyLock)
    \/ \E c \in Callers : CheckHealth(c)
    \/ \E c \in Callers, k \in SingleKeys, v \in LockValues, d \in Durations :
          TryLock(c, k, v, d)
    \/ Tick

SpecLockArgs == InitLock /\ [][NextLockArgs]_vars

\* the keys a ReleaseMultiLock may list: any keys, repeated or none
UnlockLists == UNION {[1..n -> SingleKeys] : n \in 0..MaxKeys}

\* locks taken key by key and released several at a time
NextMultiUnlock ==
    \/ \E c \in Callers, name \in {ScriptKeyLock, ScriptKeyMultiUnlock} :
          totalOps < MaxLockOps /\ EvalScript(c, name)
    \/ \E c \in Callers : CheckHealth(c)
    \/ \E c \in Callers, k \in SingleKeys, v \in Tokens : TryLock(c, k, v, 2 * MaxTTL)
    \/ \E c \in Callers, ks \in UnlockLists, v \in Tokens : ReleaseMultiLock(c, ks, v)
    \/ Tick

SpecMultiUnlock == InitLock /\ [][NextMultiUnlock]_vars

\* every primitive's wrapper on every reply Eval may hand it
NextWrap ==
    \/ \E c \in Callers, name \in ScriptPrimitives :
          totalOps < MaxLockOps /\ EvalScript(c, name)
    \/ \E c \in Callers : CheckHealth(c)
    \/ \E c \in Callers, op \in ScriptPrimitives, reply \in EvalReplies :
          WrapReply(c, op, reply)

SpecWrap == InitLock /\ [][NextWrap]_vars

\* the multi-key lock, each caller locking with its own token
NextMulti ==
    \/ \E c \in Callers : totalOps < MaxMultiOps /\ EvalScript(c, ScriptKeyMultiLock)
    \/ \E c \in Callers : CheckHealth(c)
    \/ \E c \in Callers, ks \in KeyLists, d \in Durations :
          TryMultiLock(c, ks, OwnToken(c), d)
    \/ Tick

SpecMulti == InitLock /\ [][NextMulti]_vars

\* the bounded counter: a run fixes (incr, max) and the counter's first
\* value, absent or at most max
InitCounter ==
    /\ InitManager
    /\ arg \in [incr : 1..MaxStep, max : 1..MaxCeil]
    /\ \E v \in 0..arg.max, present \in BOOLEAN :
          store = IF present THEN Set(EmptyStore, "n", v, 0) ELSE EmptyStore

NextCounter ==
    \/ \E c \in Callers : totalOps < MaxCounterOps /\ EvalScript(c, ScriptKeyIncr)
    \/ \E c \in Callers : CheckHealth(c)
    \/ \E c \in Callers, k \in CounterKeys : SafeIncr(c, k, arg.incr, arg.max)

SpecCounter == InitCounter /\ [][NextCounter]_vars

\* the amounts a SafeDecr call may pass: negative, zero and positive
Decrs == -1..MaxDecr

\* the decrement: callers pass any amount, the counter starts absent or at a
\* non-negative value
InitDecr ==
    /\ InitManager
    /\ arg = [incr |-> 1, max |-> 1]
    /\ \E v \in 0..MaxCeil :
          store \in {EmptyStore, Set(EmptyStore, "n", v, 0)}

NextDecr ==
    \/ \E c \in Callers : totalOps < MaxDecrOps /\ EvalScript(c, ScriptKeyDecr)
    \/ \E c \in Callers : CheckHealth(c)
    \/ \E c \in Callers, k \in CounterKeys, d \in Decrs : SafeDecr(c, k, d)

SpecDecr == InitDecr /\ [][NextDecr]_vars

\* the bounded counter with both of its increments called on a manager as
\* constructed
NextLimit ==
    \/ NextCounter
    \/ \E c \in Callers : IncrWithLimitAndExpire(c)

SpecLimit == InitCounter /\ [][NextLimit]_vars

HashKeys == {"h"}
Fields == {"f", "g"}

\* the hash-field decrement: the hash starts without the field or with it at
\* a non-negative value
InitHash ==
    /\ InitManager
    /\ arg = [incr |-> 1, max |-> 1]
    /\ \E v \in 0..MaxCeil, f \in Fields :
          store \in {EmptyStore, Set(EmptyStore, "h", [x \in {f} |-> v], 0)}

NextHash ==
    \/ \E c \in Callers : totalOps < MaxDecrOps /\ EvalScript(c, ScriptKeyHDecr)
    \/ \E c \in Callers : CheckHealth(c)
    \/ \E c \in Callers, k \in HashKeys, f \in Fields, d \in Decrs : SafeHDecr(c, k, f, d)

SpecHash == InitHash /\ [][NextHash]_vars

\* the manager just constructed: the goroutines that start the loops have
\* not run yet, and statistics are enabled or not
InitClose ==
    /\ up = TRUE
    /\ isHealthy = TRUE
    /\ mu = "free"
    /\ scripts = RegisterAllScripts
    /\ totalOps = 0
    /\ errorOps = 0
    /\ pc = [c \in Callers |-> "idle"]
    /\ opn = [c \in Callers |-> "none"]
    /\ res = [c \in Callers |-> NoResult]
    /\ store = EmptyStore
    /\ arg = [incr |-> 1, max |-> 1]
    /\ done = "open"
    /\ panicked = FALSE
    /\ client = "set"
    /\ ticker = [l \in Loops |-> "nil"]
    /\ tick = [l \in Loops |-> FALSE]
    /\ masters = [m \in OtherShards |-> TRUE]
    /\ manager = "set"
    /\ newErr = Nil
    /\ startTime = 0
    /\ logs = <<>>
    /\ \E EnableStats \in BOOLEAN :
          /\ config = [Mode |-> ModeSingle, Addrs |-> TRUE, EnableStats |-> EnableStats]
          /\ loop = [l \in Loops |-> IF l = "health" \/ EnableStats THEN "init" ELSE "off"]

\* the background loops and the steps of Close
NextLoops ==
    \/ \E l \in Loops : startLoop(l)
    \/ \E l \in Loops : TickerFire(l)
    \/ \E l \in Loops : LoopRecv(l)
    \/ \E l \in Loops : LoopDone(l)
    \/ LoopHealthCheck
    \/ LoopStatsProc
    \/ \E c \in Callers : CloseEnd(c)
    \/ errorOps <= MaxErrors /\ StoreDown
    \/ StoreUp

\* shutdown: any caller may call Close at any time
NextClose ==
    \/ NextLoops
    \/ \E c \in Callers : CloseBegin(c)

SpecClose == InitClose /\ [][NextClose]_vars

\* shutdown with Close called once.  The scheduler runs every goroutine that
\* can run, and a select with its done case ready takes it sooner or later
NextCloseOnce ==
    \/ NextLoops
    \/ \E c \in Callers : done = "open" /\ CloseBegin(c)

Fairness ==
    /\ \A l \in Loops : WF_vars(startLoop(l))
    /\ \A l \in Loops : WF_vars(LoopRecv(l))
    /\ \A l \in Loops : SF_vars(LoopDone(l))
    /\ WF_vars(LoopHealthCheck)
    /\ WF_vars(LoopStatsProc)
    /\ \A c \in Callers : WF_vars(CloseEnd(c))

SpecCloseOnce == InitClose /\ [][NextCloseOnce]_vars /\ Fairness

MaxShutdownOps == 2

\* shutdown under load: callers ping and take pipelines while one of them
\* calls Close once, with the loops running and outages of the store
NextShutdown ==
    \/ NextCloseOnce
    \/ \E c \in Callers : ~panicked /\ totalOps < MaxShutdownOps /\ Command(c, OpPing)
    \/ \E c \in Callers : ~panicked /\ CheckHealth(c)
    \/ \E c \in Callers : ~panicked /\ Ping(c)
    \/ \E c \in Callers : NilDeref(c)
    \/ \E c \in Callers : Pipeline(c)

SpecShutdown == InitClose /\ [][NextShutdown]_vars

\* before NewRedisManager: a configuration, a store that answers or not,
\* and no manager yet
InitNew ==
    /\ config \in Configs
    /\ up \in BOOLEAN
    /\ masters = [m \in OtherShards |-> TRUE]
    /\ manager = "none"
    /\ newErr = Nil
    /\ startTime = -1
    /\ logs = <<>>
    /\ store = EmptyStore
    /\ isHealthy = FALSE
    /\ mu = "free"
    /\ scripts = {}
    /\ totalOps = 0
    /\ errorOps = 0
    /\ pc = [c \in Callers |-> "idle"]
    /\ opn = [c \in Callers |-> "none"]
    /\ res = [c \in Callers |-> NoResult]
    /\ arg = [incr |-> 1, max |-> 1]
    /\ done = "open"
    /\ panicked = FALSE
    /\ client = "nil"
    /\ ticker = [l \in Loops |-> "nil"]
    /\ tick = [l \in Loops |-> FALSE]
    /\ loop = [l \in Loops |-> "off"]

\* construction, the background loops, one Close, and outages of the store
\* and of the other primaries of a cluster
NextNew ==
    \/ NewRedisManager
    \/ \E l \in Loops : startLoop(l)
    \/ \E l \in Loops : TickerFire(l)
    \/ \E l \in Loops : LoopRecv(l)
    \/ \E l \in Loops : LoopDone(l)
    \/ LoopHealthCheck
    \/ LoopStatsProc
    \/ \E c \in Callers : manager = "set" /\ done = "open" /\ CloseBegin(c)
    \/ \E c \in Callers : CloseEnd(c)
    \/ errorOps <= MaxErrors /\ StoreDown
    \/ StoreUp
    \/ \E m \in OtherShards : config.Mode = ModeCluster /\ errorOps <= MaxErrors /\ ShardDown(m)
    \/ \E m \in OtherShards : ShardUp(m)

SpecNew == InitNew /\ [][NextNew]_vars

\* the statistics: operations on every path, the health monitor, outages
\* and readers of the counters
NextStats ==
    \/ \E c \in Callers : EvalScript(c, "myscript")
    \/ \E c \in Callers : totalOps < MaxStatOps /\ Command(c, OpPing)
    \/ \E c \in Callers : CheckHealth(c)
    \/ \E c \in Callers : Ping(c)
    \/ HealthTick
    \/ performHealthCheck
    \/ errorOps <= MaxErrors /\ StoreDown
    \/ StoreUp
    \/ \E c \in Callers : GetStats(c)

SpecStats == InitLock /\ [][NextStats]_vars

\* the two lock primitives on keys a caller may already hold.  At the start
\* c1's token is stored under A with no expiry (a plain Set), so that an
\* expiry on A can only come from a lock call that met its own token
ReentryKeys == {"A", "B"}

ReentryLists == {ks \in KeyLists : Range(ks) \subseteq ReentryKeys}

InitReentry ==
    /\ InitManager
    /\ store = Set(EmptyStore, "A", OwnToken("c1"), 0)
    /\ arg = [incr |-> 1, max |-> 1]

NextReentry ==
    \/ \E c \in Callers, name \in {ScriptKeyLock, ScriptKeyMultiLock} :
          totalOps < MaxReentryOps /\ EvalScript(c, name)
    \/ \E c \in Callers : CheckHealth(c)
    \/ \E c \in Callers, k \in ReentryKeys, d \in Durations : TryLock(c, k, OwnToken(c), d)
    \/ \E c \in Callers, ks \in ReentryLists, d \in Durations :
          TryMultiLock(c, ks, OwnToken(c), d)
    \/ Tick

SpecReentry == InitReentry /\ [][NextReentry]_vars

\* the whole manager: operations, the health monitor and outages of the store
Init ==
    /\ InitManager
    /\ store = EmptyStore
    /\ arg = [incr |-> 1, max |-> 1]

\* a name no RegisterScript call has been made for
UnregisteredScript == "myscript"

SpecOps == {ScriptKeyLock, ScriptKeyUnlock, UnregisteredScript}
SpecKeys == {"A"}

Next ==
    \/ \E c \in Callers, name \in SpecOps : totalOps < MaxOps /\ EvalScript(c, name)
    \/ \E c \in Callers, name \in {OpPing, OpExec} : totalOps < MaxOps /\ Command(c, name)
    \/ \E c \in Callers : CheckHealth(c)
    \/ \E c \in Callers, k \in SpecKeys, t \in Tokens, d \in Durations : TryLock(c, k, t, d)
    \/ \E c \in Callers, k \in SpecKeys, t \in Tokens : ReleaseLock(c, k, t)
    \/ \E c \in Callers : Ping(c)
    \/ \E c \in Callers, cmd \in {"GET", "DEL"}, k \in SpecKeys : Exec(c, cmd, k)
    \/ HealthTick
    \/ performHealthCheck
    \/ errorOps <= MaxErrors /\ StoreDown
    \/ StoreUp
    \/ Tick

Spec == Init /\ [][Next]_vars

---------------------------------------------------------------------------
(* Properties *)

\* key holds token value in keyspace s
Holds(s, key, value) == Exists(s, key) /\ s[key].val = value

\* caller c's last call was op and has returned result r
Returned(c, op, r) ==
    /\ pc[c] = "idle"
    /\ opn[c] = op
    /\ res[c].ErrCode = r.ErrCode
    /\ res[c].Val = r.Val

\* caller c's call of op makes its client call in this step
Calls(c, op) == pc[c] = "call" /\ opn[c] = op /\ pc'[c] = "idle"

\* C1: a TryLock call returns acquired only if the key was absent, and then
\* the key holds the call's token with the call's expiry; a TryLock on a
\* present key returns not-acquired (false, as a success when its ttl is
\* valid) and leaves the keyspace, stored token and expiry included, unchanged.
C1_TryLockExclusive ==
    [][\A c \in Callers : Calls(c, ScriptKeyLock) =>
        \A k \in SingleKeys, t \in Tokens, d \in Durations :
        TryLock(c, k, t, d) =>
            /\ res'[c].Val = TRUE =>
                  /\ ~Exists(store, k)
                  /\ store' = Set(store, k, t, Milliseconds(d))
            /\ Exists(store, k) =>
                  /\ res'[c].Val = FALSE
                  /\ Milliseconds(d) > 0 => res'[c] = NewCacheResult(FALSE)
                  /\ store' = store]_vars

\* C1 witness: both callers called TryLock, one acquired, the other did not,
\* and the key is still held
C1_Witness ==
    /\ Returned("c1", ScriptKeyLock, NewCacheResult(TRUE))
    /\ Returned("c2", ScriptKeyLock, NewCacheResult(FALSE))
    /\ \E k \in SingleKeys : Holds(store, k, "t1") /\ store[k].ttl = 1

\* C2: a TryMultiLock whose list has a key held by another token, at any
\* position, returns false and changes no key: a call that returned true or
\* changed the keyspace had no such key in its list.
C2_MultiLockAllOrNothing ==
    [][\A c \in Callers : Calls(c, ScriptKeyMultiLock) =>
        \/ res'[c].Val = FALSE /\ store' = store
        \/ \A ks \in KeyLists, d \in Durations :
              TryMultiLock(c, ks, OwnToken(c), d) =>
                 \A i \in DOMAIN ks :
                    ~Exists(store, ks[i]) \/ store[ks[i]].val = OwnToken(c)]_vars

\* C2 witness: a TryMultiLock returned false while one key is held and
\* another key is left absent
C2_Witness ==
    \E c \in Callers :
        /\ Returned(c, ScriptKeyMultiLock, NewCacheResult(FALSE))
        /\ \E k1, k2 \in LockKeys : Exists(store, k1) /\ ~Exists(store, k2)

\* C3: a TryMultiLock either returns false and changes nothing, or it
\* succeeds, and then at its one atomic evaluation no listed key held another
\* token and it leaves every listed key, and no other key, set to its token
\* and expiry; so of invocations with different tokens on overlapping lists
\* at most one succeeds while the keys stay held.
C3_MultiLockOneWinner ==
    [][\A c \in Callers : Calls(c, ScriptKeyMultiLock) =>
        \/ res'[c].Val = FALSE /\ store' = store
        \/ \A ks \in KeyLists, d \in Durations :
              TryMultiLock(c, ks, OwnToken(c), d) =>
                 /\ res'[c] = NewCacheResult(TRUE)
                 /\ \A k \in Range(ks) :
                       /\ Exists(store, k) => store[k].val = OwnToken(c)
                       /\ Exists(store', k)
                       /\ store'[k] = [val |-> OwnToken(c), ttl |-> Milliseconds(d)]
                 /\ \A k \in LockKeys \ Range(ks) :
                       /\ Exists(store', k) <=> Exists(store, k)
                       /\ Exists(store, k) => store'[k] = store[k]]_vars

\* C3 witness: two TryMultiLock invocations, one succeeded and the other
\* observed the conflict, and exactly the winner's two keys are held
C3_Witness ==
    /\ Returned("c1", ScriptKeyMultiLock, NewCacheResult(TRUE))
    /\ Returned("c2", ScriptKeyMultiLock, NewCacheResult(FALSE))
    /\ Cardinality({k \in LockKeys : Holds(store, k, "t1")}) = 2
    /\ \A k \in LockKeys : ~Holds(store, k, "t2")

\* C4: a ReleaseLock whose token differs from the stored value, or whose key
\* is absent, returns false as a success and leaves the keyspace unchanged.
C4_ReleaseMismatch ==
    [][\A c \in Callers : Calls(c, ScriptKeyUnlock) =>
        \A k \in SingleKeys, t \in Tokens :
        (ReleaseLock(c, k, t) /\ ~Holds(store, k, t)) =>
            /\ res'[c] = NewCacheResult(FALSE)
            /\ store' = store]_vars

\* C4 witness: after three calls, one caller's TryLock holds the key and the
\* other caller's ReleaseLock has returned false
C4_Witness ==
    /\ Returned("c1", ScriptKeyUnlock, NewCacheResult(FALSE))
    /\ Returned("c2", ScriptKeyLock, NewCacheResult(TRUE))
    /\ totalOps = 3
    /\ \E k \in SingleKeys : Holds(store, k, "t2") /\ ~Holds(store, k, "t1")

\* C6: a RenewLock whose token differs from the stored value, or whose key is
\* absent, returns false and leaves the holder's token and expiry unchanged.
C6_RenewMismatch ==
    [][\A c \in Callers : Calls(c, ScriptKeyRenewLock) =>
        \A k \in SingleKeys, t \in Tokens, d \in Durations :
        (RenewLock(c, k, t, d) /\ ~Holds(store, k, t)) =>
            /\ res'[c].Val = FALSE
            /\ Milliseconds(d) > 0 => res'[c] = NewCacheResult(FALSE)
            /\ store' = store]_vars

\* C6 witness: a RenewLock has returned false while the other caller's
\* TryLock holds a key with part of its expiry gone
C6_Witness ==
    /\ Returned("c1", ScriptKeyRenewLock, NewCacheResult(FALSE))
    /\ Returned("c2", ScriptKeyLock, NewCacheResult(TRUE))
    /\ \E k \in SingleKeys : Holds(store, k, "t2") /\ store[k].ttl = 1

\* caller c's call of op is turned away by its health check in this step
Rejected(c, op) == pc[c] = "health" /\ opn[c] = op /\ pc'[c] = "idle"

C7_UnhealthyShortCircuit ==
    [][/\ \A c \in Callers :
            (pc[c] = "health" /\ pc'[c] # "health" /\ ~isHealthy) =>
                /\ pc'[c] = "idle"
                /\ res'[c].ErrCode = CONNECTION_FAILED
                /\ res'[c].Err = "ErrConnectionFailed"
                /\ store' = store
                /\ errorOps' = errorOps
       /\ (store' # store) =>
             \/ \E c \in Callers : pc[c] = "call" /\ pc'[c] = "idle"
             \/ store' = Age(store)
       /\ (isHealthy' # isHealthy) =>
             (store' = store /\ pc' = pc /\ res' = res)]_vars

\* C7 witness: a call was turned away with CONNECTION_FAILED and stays so
\* after the flag has become true again
C7_Witness ==
    \E c \in Callers :
        /\ pc[c] = "idle"
        /\ opn[c] = OpExec
        /\ res[c].ErrCode = CONNECTION_FAILED
        /\ isHealthy /\ up /\ mu = "free"

\* C8 as stated: no client call is made while the flag is false.
C8_NoStoreCallWhileUnhealthy ==
    [][\A c \in Callers : (pc[c] = "call" /\ pc'[c] = "idle") => isHealthy]_vars

\* C8 amended: a call goes on to its client call only from its health check
\* and only by reading the flag true with no writer holding mu, and it then
\* makes one client call and returns; that call may come after the flag has
\* become false.
C8_StoreCallOnlyAfterHealthyRead ==
    [][\A c \in Callers :
        /\ (pc'[c] = "call" /\ pc[c] # "call") =>
              pc[c] = "health" /\ isHealthy /\ mu = "free"
        /\ (pc[c] = "call" /\ pc'[c] # "call") => pc'[c] = "idle"]_vars

\* C8 witness: a failed probe has cleared the flag while a call that read it
\* true still has its client call to make
C8_Witness ==
    \E c \in Callers : pc[c] = "call" /\ ~isHealthy /\ mu = "free" /\ ~up

\* C9: SafeIncr reads the counter (absent counts as 0); below max it persists
\* and returns current + incr, otherwise it returns the current value and
\* persists nothing; either way the result is a success.
C9_SafeIncr ==
    [][\A c \in Callers : Calls(c, ScriptKeyIncr) =>
        \A k \in CounterKeys :
        SafeIncr(c, k, arg.incr, arg.max) =>
            LET cur == IF Exists(store, k) THEN store[k].val ELSE 0
            IN  IF cur < arg.max
                THEN /\ res'[c] = NewCacheResult(cur + arg.incr)
                     /\ Holds(store', k, cur + arg.incr)
                ELSE /\ res'[c] = NewCacheResult(cur)
                     /\ store' = store]_vars

\* C9 witness: with incr 1 and max 3, four calls have been made, the counter
\* is 3 and the last call of each caller returned 3
C9_Witness ==
    /\ arg = [incr |-> 1, max |-> 3]
    /\ totalOps = 4
    /\ Holds(store, "n", 3)
    /\ \A c \in Callers : Returned(c, ScriptKeyIncr, NewCacheResult(3))

\* C10: whatever SafeIncr calls have been made with a fixed (incr, max) on a
\* counter that started at or below max, the persisted counter never exceeds
\* max.
C10_NeverExceedsMax ==
    \A k \in CounterKeys : Exists(store, k) => store[k].val <= arg.max

\* C11: SafeDecr reads the counter (absent counts as 0); at or above decr it
\* persists and returns current - decr, otherwise it returns the current
\* value and persists nothing; either way the result is a success.
C11_SafeDecr ==
    [][\A c \in Callers : Calls(c, ScriptKeyDecr) =>
        \A k \in CounterKeys, d \in Decrs :
        SafeDecr(c, k, d) =>
            LET cur == IF Exists(store, k) THEN store[k].val ELSE 0
            IN  IF cur >= d
                THEN /\ res'[c] = NewCacheResult(cur - d)
                     /\ Holds(store', k, cur - d)
                ELSE /\ res'[c] = NewCacheResult(cur)
                     /\ store' = store]_vars

\* C11 witness: after a decrement that took the counter to 1, a call asking
\* for more than 1 has returned 1 and the counter is still 1
C11_Witness ==
    /\ totalOps = 2
    /\ Holds(store, "n", 1)
    /\ \A c \in Callers : Returned(c, ScriptKeyDecr, NewCacheResult(1))

\* C12: from a non-negative start, whatever SafeDecr calls the callers
\* interleave, the persisted counter is never below 0.
C12_FloorHolds ==
    \A k \in CounterKeys : Exists(store, k) => store[k].val >= 0

\* C12 witness: calls of both callers have taken the counter down to 0 and a
\* further call left it there
C12_Witness ==
    /\ totalOps = MaxDecrOps
    /\ Holds(store, "n", 0)
    /\ \E c \in Callers : Returned(c, ScriptKeyDecr, NewCacheResult(0))
    /\ \E c \in Callers : Returned(c, ScriptKeyDecr, NewCacheResult(1))

\* C13: SafeHDecr reads the field (absent counts as 0); at or above decr it
\* persists and returns current - decr as a success, otherwise it returns the
\* current value as a success and persists nothing.
C13_SafeHDecr ==
    [][\A c \in Callers : Calls(c, ScriptKeyHDecr) =>
        \A k \in HashKeys, f \in Fields, d \in Decrs :
        SafeHDecr(c, k, f, d) =>
            LET cur == IF HExists(store, k, f) THEN store[k].val[f] ELSE 0
            IN  IF cur >= d
                THEN /\ IsOK(res'[c])
                     /\ res'[c].Val = cur - d
                     /\ HExists(store', k, f)
                     /\ store'[k].val[f] = cur - d
                ELSE /\ res'[c] = NewCacheResult(cur)
                     /\ store' = store]_vars

\* caller c's call of op returns in this step
Returns(c, op) ==
    /\ opn'[c] = op
    /\ pc'[c] = "idle"
    /\ <<pc[c], opn[c], res[c]>> # <<pc'[c], opn'[c], res'[c]>>

\* C14: on a manager as constructed, IncrWithLimitAndExpire below max persists
\* current + incr with an expiry and returns the new value as a success; at
\* or above max it leaves the counter and returns -1 as a success.
C14_IncrWithLimitAndExpire ==
    [][\A c \in Callers, k \in CounterKeys :
        Returns(c, ScriptKeyIncrWithLimitAndExpire) =>
            LET cur == IF Exists(store, k) THEN store[k].val ELSE 0
            IN  /\ IsOK(res'[c])
                /\ IF cur < arg.max
                   THEN /\ res'[c].Val = cur + arg.incr
                        /\ Holds(store', k, cur + arg.incr)
                        /\ store'[k].ttl > 0
                   ELSE /\ res'[c].Val = -1
                        /\ store' = store]_vars

\* a step in which caller c's position, operation or result changes
Acted(c) == <<pc[c], opn[c], res[c]>> # <<pc'[c], opn'[c], res'[c]>>

\* C15: an EvalScript of a name with no registered source returns
\* INVALID_OPERATION at once, whatever the health flag: it goes to no health
\* check and no client call, counts no operation and leaves the store as it is.
C15_UnregisteredIsLocal ==
    [][\A c \in Callers :
        (opn'[c] = UnregisteredScript /\ Acted(c)) =>
            /\ pc[c] = "idle" /\ pc'[c] = "idle"
            /\ res'[c].ErrCode = INVALID_OPERATION
            /\ store' = store
            /\ totalOps' = totalOps /\ errorOps' = errorOps]_vars

\* C15 witness: an EvalScript of an unregistered name has returned
\* INVALID_OPERATION while the health flag is false
C15_Witness ==
    \E c \in Callers :
        /\ pc[c] = "idle"
        /\ opn[c] = UnregisteredScript
        /\ res[c].ErrCode = INVALID_OPERATION
        /\ ~isHealthy /\ mu = "free"

\* C16: a TryLock with a non-positive ttl or with an empty token returns an
\* error result and leaves the store as it is.
C16_TryLockParameterError ==
    [][\A c \in Callers : Calls(c, ScriptKeyLock) =>
        \A k \in SingleKeys, v \in LockValues, d \in Durations :
        (TryLock(c, k, v, d) /\ (d <= 0 \/ v = "")) =>
            /\ ~IsOK(res'[c])
            /\ store' = store]_vars

\* the replies that are a primitive's business outcomes: acquired or not,
\* released or not, renewed or not, a count, a counter value
BusinessReplies(op) == IF op \in BoolOps THEN {0, 1} ELSE 0..2

\* C17: every primitive returns a business outcome of its script as a success
\* carrying that outcome, and returns a client error or a reply of an
\* unexpected shape as an error result.
C17_OutcomeOrDefect ==
    [][\A c \in Callers, op \in ScriptPrimitives : Calls(c, op) =>
        \A r \in EvalReplies :
        WrapReply(c, op, r) =>
            LET reply == EvalReply(r) IN
            IF ~IsOK(reply)
            THEN ~IsOK(res'[c]) /\ res'[c].ErrCode = reply.ErrCode
            ELSE IF ~IsInt64(reply.Val)
            THEN res'[c].ErrCode = REDIS_INNER_ERROR
            ELSE reply.Val.v \in BusinessReplies(op) =>
                    /\ IsOK(res'[c])
                    /\ res'[c].Val = IF op \in BoolOps THEN reply.Val.v = 1
                                     ELSE reply.Val.v]_vars

\* C17 witness: one TryLock has returned "not acquired" as a success while
\* another got a reply of an unexpected shape and returned an internal error
C17_Witness ==
    /\ Returned("c1", ScriptKeyLock, NewCacheResult(FALSE))
    /\ pc["c2"] = "idle" /\ opn["c2"] = ScriptKeyLock
    /\ res["c2"].ErrCode = REDIS_INNER_ERROR
    /\ res["c2"].Err = "unexpected return type"

\* C18: ReleaseMultiLock deletes exactly the listed keys whose value is the
\* token, leaves every other key as it is, and returns the number of keys it
\* deleted as a success.
C18_ReleaseMultiLock ==
    [][\A c \in Callers : Calls(c, ScriptKeyMultiUnlock) =>
        \A ks \in UnlockLists, v \in Tokens :
        ReleaseMultiLock(c, ks, v) =>
            LET released == {k \in Range(ks) : Holds(store, k, v)}
            IN  /\ DOMAIN store' = DOMAIN store \ released
                /\ \A k \in DOMAIN store' : store'[k] = store[k]
                /\ res'[c] = NewCacheResult(Cardinality(released))]_vars

\* C18 witness: a release listing two held keys has deleted the one that held
\* its token, returned 1, and the other token's key is still held
C18_Witness ==
    \E c \in Callers :
        /\ Returned(c, ScriptKeyMultiUnlock, NewCacheResult(1))
        /\ totalOps = 3
        /\ \E k \in SingleKeys : DOMAIN store = {k}

\* C19: however Close calls follow or interleave, no Close faults: done is
\* never closed a second time.
C19_CloseNeverFaults == ~panicked

\* C20: once Close has been called, both background loops (the statistics
\* loop if enabled) observe done and return.
C20_LoopsTerminate ==
    (done = "closed") ~> (\A l \in Loops : loop[l] \in {"done", "off"})

\* C20 witness: after a Close, with statistics enabled, both loops have
\* returned
C20_Witness ==
    /\ done = "closed"
    /\ client = "nil"
    /\ \A l \in Loops : loop[l] = "done"

\* the code of the first RedisError errors.As finds in an error's chain
\* (fmt's wrapper unwraps, RedisError does not)
RECURSIVE Classify(_)
Classify(err) ==
    IF err.type = "RedisError" THEN err.Code
    ELSE IF err.type = "wrapError" THEN Classify(err.Err)
    ELSE "none"

\* this step is NewRedisManager returning
Constructs == manager = "none" /\ manager' # "none"

\* C21: when the probe of a valid configuration fails at construction,
\* NewRedisManager returns a nil manager and an error whose chain carries
\* the connectivity code, not the internal-error code; and a nil manager has
\* no client, no ticker and no background loop, then or later
C21_FailedProbeIsFatal ==
    [][ /\ (Constructs /\ Validate(config) = Nil /\ ~up)
            => /\ manager' = "nil"
               /\ newErr' # Nil
               /\ Classify(newErr') = CONNECTION_FAILED
        /\ (manager' = "nil")
            => /\ client' = "nil"
               /\ \A l \in Loops : loop'[l] = "off" /\ ticker'[l] = "nil" /\ ~tick'[l]
      ]_vars

\* C21 witness: the constructor of a cluster configuration with statistics
\* enabled has failed at its probe, the store still not answering
C21_Witness ==
    /\ manager = "nil"
    /\ Classify(newErr) = CONNECTION_FAILED
    /\ config.Mode = ModeCluster
    /\ config.EnableStats
    /\ ~up

\* this step is a probe round of the health loop completing
ProbeStep == loop["health"] = "work" /\ loop'["health"] = "select"

\* C22: on an open manager, after each completed probe round the flag is
\* that round's outcome, and nothing but a probe round, Close or the
\* constructor changes the flag
C22_FlagFollowsProbe ==
    [][ /\ (ProbeStep /\ client = "set") => (isHealthy' = ProbeRound)
        /\ (isHealthy' # isHealthy)
            => (ProbeStep \/ Constructs \/ \E c \in Callers : pc[c] = "closing")
      ]_vars

C22_Witness ==
    /\ client = "set"
    /\ isHealthy
    /\ logs = <<"failed", "recovered">>
    /\ loop["health"] = "select"

\* C23: a probe round adds exactly one log entry if it changes the flag and
\* none if it leaves the flag as it was, the entry names the direction of
\* the change, and nothing else writes to the transition log
C23_TransitionsLoggedOnce ==
    [][ /\ ProbeStep =>
              /\ Len(logs') = Len(logs) + (IF isHealthy' # isHealthy THEN 1 ELSE 0)
              /\ (isHealthy /\ ~isHealthy') => (logs' = Append(logs, "failed"))
              /\ (~isHealthy /\ isHealthy') => (logs' = Append(logs, "recovered"))
        /\ (logs' # logs) => ProbeStep
      ]_vars

C23_Witness ==
    /\ logs = <<"failed">>
    /\ ~isHealthy
    /\ ~up
    /\ loop["health"] = "work"
    /\ client = "set"

\* C24: in cluster mode a probe round on an open manager leaves the flag
\* true exactly if every primary answers its ping: one primary that does
\* not answer makes the flag false
C24_ClusterProbeAllPrimaries ==
    [][ (ProbeStep /\ client = "set" /\ config.Mode = ModeCluster)
           => (isHealthy' <=> (up /\ \A m \in OtherShards : masters[m]))
      ]_vars

C24_Witness ==
    /\ config.Mode = ModeCluster
    /\ client = "set"
    /\ up
    /\ \E m \in OtherShards : ~masters[m] /\ \A o \in OtherShards \ {m} : masters[o]
    /\ ~isHealthy
    /\ logs = <<"failed">>
    /\ loop["health"] = "select"

\* C25: every result an operation has returned is either a success (code
\* OK, no error) or an error (a code of the enumeration other than OK, an
\* error, and the zero value of the operation's type)
C25_OneMeaningfulSide ==
    \A c \in Callers :
        (pc[c] = "idle" /\ opn[c] \notin {"none", "Close", "GetStats"}) =>
            \/ res[c].ErrCode = OK /\ res[c].Err = "nil"
            \/ /\ res[c].ErrCode \in ErrorCode \ {OK}
               /\ res[c].Err # "nil"
               /\ res[c].Val = Zero(opn[c])

C25_Witness ==
    /\ Returned("c1", ScriptKeyLock, NewCacheResult(TRUE))
    /\ res["c1"].Err = "nil"
    /\ Returned("c2", ScriptKeyLock, NewCacheError(FALSE, CONNECTION_FAILED, "ErrConnectionFailed"))
    /\ res["c2"].Err # "nil"

\* caller c reads the statistics in this step: no other step leaves every
\* caller's position and mu as they are and gives c a new reading
ReadsStats(c) ==
    /\ pc[c] = "idle"
    /\ pc' = pc
    /\ mu' = mu
    /\ opn'[c] = "GetStats"
    /\ (opn[c] = "GetStats") => (res'[c].Val # res[c].Val)

\* C26: no step lowers totalOps or errorOps or changes startTime, and a
\* read of the statistics returns the counters as they are and changes none
\* of them
C26_CountersMonotonic ==
    [][ /\ totalOps' >= totalOps
        /\ errorOps' >= errorOps
        /\ startTime' = startTime
        /\ \A c \in Callers : ReadsStats(c) =>
              /\ res'[c].Val.total = totalOps
              /\ res'[c].Val.errors = errorOps
              /\ <<totalOps', errorOps', startTime'>> = <<totalOps, errorOps, startTime>>
      ]_vars

C26_Witness ==
    /\ pc["c1"] = "idle" /\ opn["c1"] = "GetStats"
    /\ res["c1"].Val.total >= 2
    /\ res["c1"].Val.errors >= 1
    /\ totalOps > res["c1"].Val.total
    /\ errorOps > res["c1"].Val.errors
    /\ mu = "health"

\* caller c's call begins in this step: it goes on to its health check, or
\* returns at once under a new operation name
Begins(c) == pc[c] = "idle" /\ (pc'[c] = "health" \/ opn'[c] # opn[c])

\* C27: every call of an operation, whatever its path (success, business
\* no-op, rejection while unhealthy, unregistered script name, transport
\* error), raises totalOps by exactly one when it begins, and nothing else
\* changes totalOps
C27_EveryCallCounted ==
    [][ /\ \A c \in Callers : Begins(c) => (totalOps' = totalOps + 1)
        /\ (totalOps' # totalOps) => \E c \in Callers : Begins(c)
      ]_vars

\* C28 as stated: a RenewLock with any ttl > 0 by the token the key holds
\* returns true, sets the key's expiry to ttl and leaves the token; no
\* RenewLock creates an absent key.
C28_RenewAnyPositiveTtl ==
    [][\A c \in Callers : Calls(c, ScriptKeyRenewLock) =>
        \A k \in SingleKeys, t \in Tokens, d \in Durations :
        RenewLock(c, k, t, d) =>
            /\ (d > 0 /\ Holds(store, k, t)) =>
                  /\ res'[c] = NewCacheResult(TRUE)
                  /\ Holds(store', k, t)
                  /\ 2 * store'[k].ttl = d
            /\ ~Exists(store, k) => ~Exists(store', k)]_vars

\* C28: a RenewLock with a ttl of at least one millisecond by the token the
\* key holds returns true, sets the key's expiry to ttl in whole
\* milliseconds and leaves the token and every other key; no RenewLock
\* creates an absent key.
C28_RenewByHolder ==
    [][\A c \in Callers : Calls(c, ScriptKeyRenewLock) =>
        \A k \in SingleKeys, t \in Tokens, d \in Durations :
        RenewLock(c, k, t, d) =>
            /\ (Milliseconds(d) >= 1 /\ Holds(store, k, t)) =>
                  /\ res'[c] = NewCacheResult(TRUE)
                  /\ Holds(store', k, t)
                  /\ store'[k].ttl = Milliseconds(d)
                  /\ \A o \in DOMAIN store \ {k} : o \in DOMAIN store' /\ store'[o] = store[o]
            /\ \A o \in SingleKeys : ~Exists(store, o) => ~Exists(store', o)]_vars

\* C28 witness: a RenewLock by the holder has returned true and the key,
\* locked for one millisecond, now has the longest expiry
C28_Witness ==
    /\ Returned("c1", ScriptKeyRenewLock, NewCacheResult(TRUE))
    /\ Returned("c2", ScriptKeyLock, NewCacheResult(TRUE))
    /\ Holds(store, "A", "t2")
    /\ store["A"].ttl = MaxTTL
    /\ ~Exists(store, "B")

\* C29: a TryMultiLock with valid parameters (at least one key, a ttl of at
\* least one millisecond) whose listed keys are each absent or already held
\* by its token returns true, and then every listed key, those the caller
\* already held included, holds the token with the call's expiry, and no
\* other key changes.
C29_MultiLockReentrant ==
    [][\A c \in Callers : Calls(c, ScriptKeyMultiLock) =>
        \A ks \in ReentryLists, d \in Durations :
        (/\ TryMultiLock(c, ks, OwnToken(c), d)
         /\ Len(ks) >= 1
         /\ Milliseconds(d) >= 1
         /\ \A i \in DOMAIN ks : ~Exists(store, ks[i]) \/ store[ks[i]].val = OwnToken(c)) =>
            /\ res'[c] = NewCacheResult(TRUE)
            /\ \A i \in DOMAIN ks :
                  Holds(store', ks[i], OwnToken(c)) /\ store'[ks[i]].ttl = Milliseconds(d)
            /\ \A o \in DOMAIN store \ Range(ks) : o \in DOMAIN store' /\ store'[o] = store[o]
            /\ DOMAIN store' = DOMAIN store \cup Range(ks)]_vars

\* C29 witness: c1's TryMultiLock has returned true, and A, which held c1's
\* token without expiry, and B both hold it with the longest expiry
C29_Witness ==
    /\ Returned("c1", ScriptKeyMultiLock, NewCacheResult(TRUE))
    /\ Holds(store, "A", OwnToken("c1")) /\ store["A"].ttl = MaxTTL
    /\ Holds(store, "B", OwnToken("c1")) /\ store["B"].ttl = MaxTTL

\* C30: a TryLock on a key that holds the call's own token returns false
\* (as a success when its ttl is valid) and leaves the key's expiry and the
\* rest of the keyspace as they are, while a TryMultiLock of that one key
\* and token with a valid ttl returns true and resets the key's expiry.
C30_SingleLockNotReentrant ==
    [][\A c \in Callers, k \in ReentryKeys, d \in Durations :
        Holds(store, k, OwnToken(c)) =>
            /\ (Calls(c, ScriptKeyLock) /\ TryLock(c, k, OwnToken(c), d)) =>
                  /\ res'[c].Val = FALSE
                  /\ Milliseconds(d) >= 1 => res'[c] = NewCacheResult(FALSE)
                  /\ store' = store
            /\ (/\ Calls(c, ScriptKeyMultiLock)
                /\ TryMultiLock(c, <<k>>, OwnToken(c), d)
                /\ Milliseconds(d) >= 1) =>
                  /\ res'[c] = NewCacheResult(TRUE)
                  /\ store' = Set(store, k, OwnToken(c), Milliseconds(d))]_vars

\* C30 witness: only c1 has called; its TryMultiLock gave A an expiry, and
\* its TryLock then returned false as a success with that expiry running on
C30_Witness ==
    /\ opn["c2"] = "none"
    /\ totalOps = 2
    /\ Returned("c1", ScriptKeyLock, NewCacheResult(FALSE))
    /\ res["c1"].ErrCode = OK
    /\ Holds(store, "A", OwnToken("c1")) /\ store["A"].ttl = 1
    /\ ~Exists(store, "B")

\* C31: a TryLock with a valid ttl returns true exactly if the key is absent,
\* whatever the token, and then the key holds its token; a held key becomes
\* absent only by a ReleaseLock with the token it holds, which returns true
\* and removes it at once, or by its last millisecond passing, and a
\* millisecond passing removes every key that had one left.
C31_AcquirableAfterReleaseOrExpiry ==
    [][ /\ \A c \in Callers : Calls(c, ScriptKeyLock) =>
              \A k \in SingleKeys, t \in Tokens, d \in Durations :
              (TryLock(c, k, t, d) /\ Milliseconds(d) >= 1) =>
                  /\ res'[c] = NewCacheResult(~Exists(store, k))
                  /\ ~Exists(store, k) => Holds(store', k, t)
                  /\ Exists(store, k) => store' = store
        /\ \A c \in Callers : Calls(c, ScriptKeyUnlock) =>
              \A k \in SingleKeys, t \in Tokens :
              (ReleaseLock(c, k, t) /\ Holds(store, k, t)) =>
                  /\ res'[c] = NewCacheResult(TRUE)
                  /\ ~Exists(store', k)
        /\ \A k \in SingleKeys :
              (Exists(store, k) /\ ~Exists(store', k)) =>
                  \/ \E c \in Callers :
                        Calls(c, ScriptKeyUnlock) /\ ReleaseLock(c, k, store[k].val)
                  \/ pc' = pc /\ store[k].ttl = 1
        /\ (pc' = pc /\ store' # store) =>
              \A k \in DOMAIN store : store[k].ttl = 1 => ~Exists(store', k)
      ]_vars

\* C31 witness: after three calls c1 has released with success, c2's
\* TryLock has returned true, and A, the only key, holds c2's token
C31_Witness ==
    /\ totalOps = 3
    /\ Returned("c1", ScriptKeyUnlock, NewCacheResult(TRUE))
    /\ Returned("c2", ScriptKeyLock, NewCacheResult(TRUE))
    /\ DOMAIN store = {"A"}
    /\ Holds(store, "A", "t2")

\* C32: a tick leaves the health ticker's channel only when the health loop
\* is at its select, with no probe round in progress, and the loop then
\* works on that one tick; a round ends before the loop selects again, and
\* only a round in progress writes the probe's outcome.
C32_ProbeRoundsSequential ==
    [][ /\ (tick["health"] /\ ~tick'["health"])
            => (loop["health"] = "select" /\ loop'["health"] = "work")
        /\ (loop["health"] = "work" /\ loop'["health"] # "work")
            => loop'["health"] = "select"
        /\ (logs' # logs) => loop["health"] = "work"
      ]_vars

\* C32 witness: a probe round is in progress on an open manager and the
\* next tick already waits in the channel
C32_Witness ==
    /\ loop["health"] = "work"
    /\ tick["health"]
    /\ client = "set"
    /\ logs = <<"failed">>

\* performHealthCheck holds rm.mu and its ping is in flight
ProbeInFlight == mu = "health"

\* C33: no task holds the flag's lock while a store round trip is in flight:
\* the monitor does not hold it during its ping, so no operation waits at
\* its read of the flag for a probe's network call, and an operation whose
\* command is in flight holds no lock.
C33_NoLockAcrossRoundTrip ==
    /\ \A c \in Callers : ~(pc[c] = "health" /\ ProbeInFlight)
    /\ \A c \in Callers : pc[c] = "call" => mu # c

\* this step is Close clearing the client and the flag
CloseStep == \E c \in Callers : pc[c] = "closing" /\ pc'[c] = "idle"

\* C34 (as stated): after construction nothing but a probe round of the
\* health monitor changes the health flag.
C34_FlagChangedByProbeOnly ==
    [][(isHealthy' # isHealthy) => ProbeStep]_vars

\* C34: after construction the health flag is changed only by the health
\* monitor's probe rounds and by Close, which clears it; no step of an
\* operation call changes it, a client call that fails with a transport
\* error included, and neither does Pipeline.
C34_FlagChangedByProbeOrClose ==
    [][ /\ (isHealthy' # isHealthy) => (ProbeStep \/ (CloseStep /\ ~isHealthy'))
        /\ \A c \in Callers :
              (Acted(c) /\ pc[c] # "closing") => (isHealthy' = isHealthy)
      ]_vars

C34_Witness ==
    /\ Returned("c1", OpPing, NewCacheError("nil", REDIS_INNER_ERROR, "transport error"))
    /\ errorOps = 1
    /\ isHealthy
    /\ done = "open"

\* C35: a TryLock or RenewLock that the script rejects for a ttl below one
\* millisecond returns the error kind INVALID_OPERATION and leaves every key
\* as it was.
C35_MalformedIsInvalidOperation ==
    [][ /\ \A c \in Callers : Calls(c, ScriptKeyLock) =>
              \A k \in SingleKeys, t \in Tokens, d \in Durations :
              (TryLock(c, k, t, d) /\ Milliseconds(d) < 1) =>
                  /\ res'[c].ErrCode = INVALID_OPERATION
                  /\ store' = store
        /\ \A c \in Callers : Calls(c, ScriptKeyRenewLock) =>
              \A k \in SingleKeys, t \in Tokens, d \in Durations :
              (RenewLock(c, k, t, d) /\ Milliseconds(d) < 1) =>
                  /\ res'[c].ErrCode = INVALID_OPERATION
                  /\ store' = store
      ]_vars

\* C36: with Close called once, no operation that has passed its health
\* check stands before its client call with rm.client cleared, and no call
\* through rm.client (an operation's command, Pipeline) faults.
C36_NoCallThroughClearedHandle ==
    /\ \A c \in Callers : pc[c] = "call" => client = "set"
    /\ ~panicked

\* C37: once Close has completed on a manager that held a client, the health
\* flag is false in every later state, a probe round that runs afterwards
\* included, and every operation that reaches its health check from then on
\* returns CONNECTION_FAILED without a client call.
C37_ClosedStaysUnhealthy ==
    [][ /\ client = "nil" => ~isHealthy
        /\ client' = "nil" => ~isHealthy'
        /\ (ProbeStep /\ client = "nil") => ~isHealthy'
        /\ \A c \in Callers :
              (client = "nil" /\ pc[c] = "health" /\ Acted(c)) =>
                  /\ pc'[c] = "idle"
                  /\ res'[c].ErrCode = CONNECTION_FAILED
                  /\ store' = store
      ]_vars

C37_Witness ==
    /\ client = "nil"
    /\ up
    /\ opn["c1"] = "Close"
    /\ totalOps = 2
    /\ Returned("c2", OpPing, NewCacheError("nil", CONNECTION_FAILED, "ErrConnectionFailed"))
    /\ loop["health"] = "done"
    /\ logs = <<>>

\* C38: once Close has returned and the tasks that start the loops have run
\* (before it or after it), every ticker they created is stopped and every
\* loop that has seen the done signal has returned, none being at work.
C38_NoTickerLeftRunning ==
    (/\ done = "closed"
     /\ \A c \in Callers : pc[c] # "closing"
     /\ \A l \in Loops : loop[l] \in {"off", "done"})
        => \A l \in Loops : ticker[l] # "running"

\* C39: in every reachable state the error counter is at most the total
\* counter.
C39_ErrorsWithinTotal == errorOps <= totalOps

\* C40: whatever SafeIncr calls are made with a fixed incr >= 1 and a fixed
\* max on a counter that started at or below max, the persisted counter never
\* exceeds max + incr - 1, and a call that finds the counter at or above max
\* returns it and changes nothing.
C40_OvershootWithinOneStep ==
    [][ /\ \A k \in CounterKeys :
              Exists(store', k) => store'[k].val <= arg.max + arg.incr - 1
        /\ \A c \in Callers, k \in CounterKeys :
              (Calls(c, ScriptKeyIncr) /\ Exists(store, k) /\ store[k].val >= arg.max) =>
                  /\ store' = store
                  /\ res'[c] = NewCacheResult(store[k].val)
      ]_vars

\* C40 witness: with incr 2 and max 3 the counter went 0, 2, 4 and a third
\* call left it at 4
C40_Witness ==
    /\ arg = [incr |-> 2, max |-> 3]
    /\ totalOps = 3
    /\ Holds(store, "n", 4)
    /\ \A c \in Callers : Returned(c, ScriptKeyIncr, NewCacheResult(4))

====
